---- MODULE Spec2Model ----
(***************************************************************************)
(* A model of the entity/component store of hydrolox:                      *)
(*   - Comptainer<T>  (src/src/framework.rs): the sparse set, an index map *)
(*     id_to_pos from Entity to a position in the dense Vec comps;         *)
(*   - CompData       (src/src/comp_data.rs): the type-erased growable     *)
(*     column over a raw allocation.                                       *)
(* Spec         is the Comptainer under add_component / remove_component.  *)
(* SpecCompData is the CompData column under push / replace / swap_remove. *)
(***************************************************************************)
EXTENDS Integers, Sequences, FiniteSets, TLC

(***************************************************************************)
(* Bounds of the model.                                                    *)
(***************************************************************************)
NumEntities == 3
NumValues == 2
MaxCap == 3      \* the initial capacities of a column are 0..MaxCap
MaxLen == 4      \* push is not called on a column of MaxLen elements
WordBits == 16   \* the width of usize and u64 in the model
NumThreads == 2  \* the threads that call Entity::new
MaxNew == 5      \* Entity::new is called at most MaxNew times in all
MaxInput == 3    \* the entries of a serialized map given to deserialize
NumKinds == 3    \* the component kinds of Components the threads lock
Near == 2        \* the integers given to the Entity visitor lie within Near of 0, of
                 \* u64::MAX and of the ends of their own type
MaxMsgs == 2     \* the Input messages sent to the Game system
NumHandlers == 2 \* the ActionHandler components
MaxNest == 1     \* the read guards held at a time by threads that already read the lock

Entities == 1..NumEntities
Values == 1..NumValues

VARIABLES
    id_to_pos,   \* Comptainer.id_to_pos: Entity -> usize (0-based dense index)
    comps,       \* Comptainer.comps: Vec<T>; comps[k+1] is the Vec's element k
    live,        \* history: the entities added and not removed since, with the value last added
    last,        \* history: the last call, its arguments, its result and the state it started from
    panicked     \* the last call panicked (index out of bounds, unwrap of None)

cvars == <<id_to_pos, comps, live, last, panicked>>

VARIABLES
    cd,          \* the CompData struct: data, len, cap, elem_type, elem_size, elem_align
    heap,        \* the allocator's blocks; a pointer is a position in this sequence
    cd_status,   \* "ok", or how the last call ended the run: "panicked", "aborted", "ub"
    cd_last,     \* history: the last call on the column, its arguments and result, the
                 \* slots whose element it finalized, and whether it finalized val
    cd_hist      \* history: the capacity asked at creation, whether only push was called
                 \* since, and the contents the calls made so far should have left

dvars == <<cd, heap, cd_status, cd_last, cd_hist>>

VARIABLES
    NEXT_ID,     \* entity_impl::NEXT_ID, the process-wide AtomicU64
    th           \* per thread: where it is in Entity::new, the value next_id() gave it,
                 \* and the ids of the entities it was returned so far

evars == <<NEXT_ID, th>>

VARIABLES
    wire         \* serde: how far serialize / deserialize of a Comptainer got (phase),
                 \* the serialized map as a sequence of entries (input), the entries
                 \* visit_map has not read yet (rest), and history: the live mapping of
                 \* the Comptainer that was serialized (saved)

svars == <<wire>>

VARIABLES
    tok          \* serde: the integer a deserializer hands to the Entity visitor (its
                 \* type ty and value v), and what the visitor returned (res)

kvars == <<tok>>

VARIABLES
    held,        \* Components: for each thread and component kind, the guard the thread
                 \* holds on that kind's RwLock: "none", "read" or "write"
    nested       \* for each thread and kind, the read guards the thread holds on that
                 \* kind's RwLock beside its first

lvars == <<held, nested>>

VARIABLES
    it           \* an iterator over the Comptainer, from iter() or iter_mut(): whether
                 \* one is alive (on), which of the two (mut), the entries its id_iter
                 \* has not yielded yet (rest), and what the last next() returned (ret)

ivars == <<it>>

VARIABLES
    pc,          \* the three threads of the program: for each, the instruction it is
                 \* at (0: its run function has returned; -1: not spawned yet)
    policy       \* the priority policy of the platform's RwLock: whether read() is
                 \* granted while a writer waits ("readers_first") or not

pvars == <<pc, policy>>

VARIABLES
    receiver,         \* the channel of the Game system: the messages sent and not yet
                      \* received, oldest first, each with its index into sent
    sent,             \* the variant, Input or Stop, of every message sent to the Game
                      \* system, in send order
    action_handlers,  \* the ActionHandler components, in the order iter_mut visits them
    dispatched,       \* the indices into sent of the Input messages Game::run has
                      \* offered to the handlers, in the order it did
    run,              \* where Game::run is: "new" (not spawned), "try_iter", "steps"
                      \* or "returned"
    joined,           \* whether the join in SystemData::drop has completed
    handled,          \* the last try_handle_action calls: the action, the handlers
                      \* before, and what each call returned
    player,           \* the place of the Player's handler in action_handlers
    send_ret,         \* what the last sender.send returned: "Ok", "Err", or "none"
    msg,              \* the Input the body of the for loop over try_iter() holds, with
                      \* its index into sent
    actions           \* the Look actions Player::step took out of its queue and has
                      \* not handled yet

gvars == <<receiver, sent, action_handlers, dispatched, run, joined, handled, player, send_ret, msg, actions>>

\* What an operation on one of these leaves unchanged.
notC == <<dvars, evars, svars, kvars, lvars, ivars, pvars, gvars>>
notD == <<cvars, evars, svars, kvars, lvars, ivars, pvars, gvars>>
notE == <<cvars, dvars, svars, kvars, lvars, ivars, pvars, gvars>>
notS == <<dvars, evars, kvars, lvars, ivars, pvars, gvars>>
notK == <<cvars, dvars, evars, svars, lvars, ivars, pvars, gvars>>
notL == <<cvars, dvars, evars, svars, kvars, ivars, pvars, gvars>>
notI == <<cvars, dvars, evars, svars, kvars, lvars, pvars, gvars>>
notCI == <<dvars, evars, svars, kvars, lvars, pvars, gvars>>
notP == <<cvars, dvars, evars, svars, kvars, lvars, ivars, gvars>>
notG == <<cvars, dvars, evars, svars, kvars, lvars, ivars, pvars>>
notPL == <<cvars, dvars, evars, svars, kvars, ivars, gvars>>
notPLG == <<cvars, dvars, evars, svars, kvars, ivars>>

(***************************************************************************)
(* Results of calls.                                                       *)
(***************************************************************************)
None == [tag |-> "None"]
Some(v) == [tag |-> "Some", val |-> v]
Bool(b) == [tag |-> "Bool", val |-> b]
Panic == [tag |-> "Panic"]

EmptyMap == [x \in {} |-> 0]

(***************************************************************************)
(* Comptainer: the read-only operations, as functions of (id_to_pos,comps).*)
(***************************************************************************)
has_component(m, e) == e \in DOMAIN m

len(m) == Cardinality(DOMAIN m)

\* comps[i] of the source: a bounds-checked index, which panics when i >= len.
get(m, c, e) ==
    IF e \in DOMAIN m
    THEN IF m[e] < Len(c) THEN Some(c[m[e] + 1]) ELSE Panic
    ELSE None

\* Vec::swap_remove(i), for i < len: the last element takes the place of element i.
vec_swap_remove(c, i) ==
    [k \in 1..(Len(c) - 1) |-> IF k = i + 1 THEN c[Len(c)] ELSE c[k]]

\* CompIter: one item per entry of id_to_pos, in the map's own order; the item
\* of entry (e, i) is (e, comps[i]), and comps[i] panics when i >= len.
iter_panics(m, c) == \E e \in DOMAIN m : m[e] >= Len(c)

iter_items(m, c) == {<<e, c[m[e] + 1]>> : e \in {x \in DOMAIN m : m[x] < Len(c)}}

iter_count(m) == Cardinality(DOMAIN m)

\* Comptainer::get_one(): the first entry (e, i) of id_to_pos in the map's own
\* order, as (e, comps[i]) with a bounds-checked index, or None when the map
\* is empty.  The set of results it may return.
get_one(m, c) ==
    IF DOMAIN m = {}
    THEN {None}
    ELSE {IF m[e] < Len(c) THEN Some(<<e, c[m[e] + 1]>>) ELSE Panic : e \in DOMAIN m}

\* CompIterMut: the dense indices one pass dereferences, one per entry of
\* id_to_pos, in each of the orders the hash map may take; the item of entry
\* (e, i) is a mutable reference to comps.as_mut_ptr().add(i), not bounds-checked.
iter_mut_indices(m) ==
    {[k \in 1..Cardinality(DOMAIN m) |-> m[ord[k]]] :
        ord \in {f \in [1..Cardinality(DOMAIN m) -> DOMAIN m] :
                   \A j, k \in 1..Cardinality(DOMAIN m) : f[j] = f[k] => j = k}}

(***************************************************************************)
(* Comptainer: the state after Comptainer::new().                          *)
(***************************************************************************)
Call(op, e, v, ret) ==
    [op |-> op, e |-> e, v |-> v, ret |-> ret,
     pre_pos |-> id_to_pos, pre_comps |-> comps, pre_live |-> live]

InitComptainer ==
    /\ id_to_pos = EmptyMap
    /\ comps = <<>>
    /\ live = EmptyMap
    /\ last = [op |-> "new", e |-> 0, v |-> 0, ret |-> None,
               pre_pos |-> EmptyMap, pre_comps |-> <<>>, pre_live |-> EmptyMap]
    /\ panicked = FALSE

\* add_component that leaves the component of an entity already present as it
\* is.
add_component_keep_first(e, v) ==
    /\ ~panicked
    /\ live' = [x \in DOMAIN live \cup {e} |-> IF x = e THEN v ELSE live[x]]
    /\ IF e \in DOMAIN id_to_pos
       THEN /\ last' = Call("add", e, v, Some(v))
            /\ UNCHANGED <<id_to_pos, comps, panicked>>
       ELSE /\ id_to_pos' = [x \in DOMAIN id_to_pos \cup {e} |->
                                IF x = e THEN Len(comps) ELSE id_to_pos[x]]
            /\ comps' = Append(comps, v)
            /\ last' = Call("add", e, v, None)
            /\ UNCHANGED panicked

(***************************************************************************)
(* Comptainer::add_component(entity, component)                            *)
(***************************************************************************)
add_component(e, v) ==
    /\ ~panicked
    /\ live' = [x \in DOMAIN live \cup {e} |-> IF x = e THEN v ELSE live[x]]
    /\ IF e \in DOMAIN id_to_pos
       THEN \* Entry::Occupied: mem::replace(&mut self.comps[*entry.get()], component)
            IF id_to_pos[e] < Len(comps)
            THEN /\ comps' = [comps EXCEPT ![id_to_pos[e] + 1] = v]
                 /\ last' = Call("add", e, v, Some(comps[id_to_pos[e] + 1]))
                 /\ UNCHANGED <<id_to_pos, panicked>>
            ELSE /\ last' = Call("add", e, v, Panic)
                 /\ panicked' = TRUE
                 /\ UNCHANGED <<id_to_pos, comps>>
       ELSE \* Entry::Vacant: entry.insert(self.comps.len()); self.comps.push(component)
            /\ id_to_pos' = [x \in DOMAIN id_to_pos \cup {e} |->
                                IF x = e THEN Len(comps) ELSE id_to_pos[x]]
            /\ comps' = Append(comps, v)
            /\ last' = Call("add", e, v, None)
            /\ UNCHANGED panicked

(***************************************************************************)
(* Comptainer::remove_component(entity)                                    *)
(* The source never erases the entity's own entry of id_to_pos.  The entry *)
(* rewritten to i is the first one, in the hash map's iteration order,     *)
(* whose index equals the new length: any such entry may be that one.      *)
(***************************************************************************)
remove_component(e) ==
    /\ ~panicked
    /\ live' = [x \in DOMAIN live \ {e} |-> live[x]]
    /\ IF e \in DOMAIN id_to_pos
       THEN LET i == id_to_pos[e] IN
            IF i >= Len(comps)
            THEN \* Vec::swap_remove asserts index < len before it changes anything
                 /\ last' = Call("remove", e, 0, Panic)
                 /\ panicked' = TRUE
                 /\ UNCHANGED <<id_to_pos, comps>>
            ELSE LET c1 == vec_swap_remove(comps, i)
                     found == {x \in DOMAIN id_to_pos : id_to_pos[x] = Len(c1)}
                 IN  /\ comps' = c1
                     /\ IF i < Len(c1)
                        THEN IF found = {}
                             THEN \* find(..) is None: unwrap panics
                                  /\ last' = Call("remove", e, 0, Panic)
                                  /\ panicked' = TRUE
                                  /\ UNCHANGED id_to_pos
                             ELSE /\ \E x \in found :
                                        id_to_pos' = [id_to_pos EXCEPT ![x] = i]
                                  /\ last' = Call("remove", e, 0, Bool(TRUE))
                                  /\ UNCHANGED panicked
                        ELSE /\ last' = Call("remove", e, 0, Bool(TRUE))
                             /\ UNCHANGED <<id_to_pos, panicked>>
       ELSE /\ last' = Call("remove", e, 0, Bool(FALSE))
            /\ UNCHANGED <<id_to_pos, comps, panicked>>

(***************************************************************************)
(* Comptainer::take()                                                      *)
(* entities starts as id_to_pos.len() copies of Entity::RESERVED; every    *)
(* entry (e, pos) of the map, in the map's own order, then stores e at     *)
(* entities[pos] (a bounds-checked index).  The map is taken before the    *)
(* loop, comps after it.                                                   *)
(***************************************************************************)
RESERVED == 2^WordBits - 1

take_entities(m) ==
    {f \in [1..len(m) -> Entities \cup {RESERVED}] :
        \A k \in 1..len(m) :
            LET at == {e \in DOMAIN m : m[e] = k - 1} IN
            IF at = {} THEN f[k] = RESERVED ELSE f[k] \in at}

take ==
    /\ ~panicked
    /\ id_to_pos' = EmptyMap
    /\ IF \E e \in DOMAIN id_to_pos : id_to_pos[e] >= len(id_to_pos)
       THEN /\ last' = Call("take", 0, 0, Panic)
            /\ panicked' = TRUE
            /\ UNCHANGED <<comps, live>>
       ELSE /\ \E ents \in take_entities(id_to_pos) :
                  last' = Call("take", 0, 0,
                               [tag |-> "Taken", entities |-> ents, values |-> comps])
            /\ comps' = <<>>
            /\ live' = EmptyMap
            /\ UNCHANGED panicked

NextComptainer ==
    \/ \E e \in Entities, v \in Values : add_component(e, v) /\ UNCHANGED notC
    \/ \E e \in Entities : remove_component(e) /\ UNCHANGED notC
    \/ take /\ UNCHANGED notC

(***************************************************************************)
(* CompData: element types, memory cells and the allocator.                *)
(* A cell holds a value, or is uninitialised, or holds junk (what a read   *)
(* of memory the column does not own may return).  A block records its     *)
(* size in elements, whether it was released, and Span cells: the cells    *)
(* past its size stand for the memory that follows the block.              *)
(***************************************************************************)
Types == {"u32", "unit"}

size_of(T) == IF T = "unit" THEN 0 ELSE 4

align_of(T) == IF T = "unit" THEN 1 ELSE 4

USIZE_MAX == 2^WordBits - 1

GROW_FIRST_CAP == 8

Val(v) == [k |-> "val", v |-> v]
UnitCell == [k |-> "unit"]
UninitCell == [k |-> "uninit"]
JunkCell == [k |-> "junk"]

ValuesOf(T) == IF T = "unit" THEN {UnitCell} ELSE {Val(v) : v \in Values}

Span == MaxLen + 1

NoPtr == 0

NewBlock(n) == [size |-> n, freed |-> FALSE, cells |-> [k \in 1..Span |-> UninitCell]]

\* alloc_nonnull::<T>(count), when the allocation succeeds: <<heap, pointer>>
alloc_nonnull(h, count) == <<Append(h, NewBlock(count)), Len(h) + 1>>

\* dealloc_nonnull(ptr, count)
dealloc_nonnull(h, ptr) == [h EXCEPT ![ptr].freed = TRUE]

\* realloc_nonnull::<T>(ptr, old_count, new_count): the allocator resizes the
\* block where it is, or moves it (the contents copied, the old block
\* released: what it held is no longer modelled), or fails and returns None
\* leaving the old block as it was.
\* The set of <<heap, Option<pointer>>> it may return.
realloc_nonnull(h, ptr, new_count) ==
    {<<[h EXCEPT ![ptr].size = new_count], ptr>>}
    \cup {<<Append([h EXCEPT ![ptr] = [size |-> h[ptr].size, freed |-> TRUE,
                                      cells |-> [k \in 1..Span |-> UninitCell]]],
                   [size |-> new_count, freed |-> FALSE,
                    cells |-> [k \in 1..Span |->
                                 IF k <= h[ptr].size THEN h[ptr].cells[k] ELSE UninitCell]]),
            Len(h) + 1>>}
    \cup {<<h, NoPtr>>}

\* copy_to_nonoverlapping(new_data, count): the first count cells of src to dst
copy_cells(h, src, dst, count) ==
    [h EXCEPT ![dst].cells = [k \in 1..Span |->
                                IF k <= count THEN h[src].cells[k] ELSE h[dst].cells[k]]]

\* Whether slot i of the block at ptr is memory the column owns.
owned(h, ptr, i) == ptr # NoPtr /\ ~h[ptr].freed /\ i < h[ptr].size

\* with_capacity that allocates whenever a capacity is asked for, whatever the
\* size of T.
with_capacity_any_size(T, c) ==
    IF c = 0
    THEN <<[data |-> NoPtr, len |-> 0, cap |-> 0, elem_type |-> T,
            elem_size |-> size_of(T), elem_align |-> align_of(T)], <<>>>>
    ELSE <<[data |-> 1, len |-> 0, cap |-> c, elem_type |-> T,
            elem_size |-> size_of(T), elem_align |-> align_of(T)],
           alloc_nonnull(<<>>, c)[1]>>

(***************************************************************************)
(* CompData::with_capacity::<T>(cap)                                       *)
(***************************************************************************)
with_capacity(T, c) ==
    IF size_of(T) = 0
    THEN <<[data |-> NoPtr, len |-> 0, cap |-> USIZE_MAX, elem_type |-> T,
            elem_size |-> size_of(T), elem_align |-> align_of(T)], <<>>>>
    ELSE IF c = 0
         THEN <<[data |-> NoPtr, len |-> 0, cap |-> 0, elem_type |-> T,
                 elem_size |-> size_of(T), elem_align |-> align_of(T)], <<>>>>
         ELSE <<[data |-> 1, len |-> 0, cap |-> c, elem_type |-> T,
                 elem_size |-> size_of(T), elem_align |-> align_of(T)],
                alloc_nonnull(<<>>, c)[1]>>

\* CompData::as_typed_slice::<T>(): the len elements at data, or len elements
\* at a dangling pointer when the column has no buffer.
as_typed_slice(c, h, T) ==
    IF c.elem_type # T THEN Panic
    ELSE IF c.data # NoPtr
         THEN Some([k \in 1..c.len |-> h[c.data].cells[k]])
         ELSE Some([k \in 1..c.len |-> UnitCell])

\* as_typed_slice_mut without the assertion on the element type.
as_typed_slice_mut_any_type(c, h, T) ==
    IF c.data # NoPtr
    THEN Some([k \in 1..c.len |-> h[c.data].cells[k]])
    ELSE Some([k \in 1..c.len |-> UnitCell])

\* CompData::as_typed_slice_mut::<T>(): the same elements, to be written through.
as_typed_slice_mut(c, h, T) ==
    IF c.elem_type # T THEN Panic
    ELSE IF c.data # NoPtr
         THEN Some([k \in 1..c.len |-> h[c.data].cells[k]])
         ELSE Some([k \in 1..c.len |-> UnitCell])

view(c, h) == as_typed_slice(c, h, c.elem_type).val

\* grow that doubles the capacity of an existing buffer.
grow_doubling(c, h) ==
    IF c.data # NoPtr
    THEN LET new_cap == c.cap + c.cap IN
         {IF r[2] # NoPtr
          THEN [cd |-> [c EXCEPT !.data = r[2], !.cap = new_cap],
                heap |-> r[1], aborted |-> FALSE]
          ELSE LET a == alloc_nonnull(h, new_cap) IN
               [cd |-> [c EXCEPT !.cap = new_cap],
                heap |-> dealloc_nonnull(copy_cells(a[1], c.data, a[2], c.len), c.data),
                aborted |-> FALSE]
            : r \in realloc_nonnull(h, c.data, new_cap)}
         \cup {[cd |-> c, heap |-> h, aborted |-> TRUE]}
    ELSE LET a == alloc_nonnull(h, GROW_FIRST_CAP) IN
         {[cd |-> [c EXCEPT !.cap = GROW_FIRST_CAP, !.data = a[2]],
           heap |-> a[1], aborted |-> FALSE],
          [cd |-> c, heap |-> h, aborted |-> TRUE]}

(***************************************************************************)
(* CompData::grow::<T>(): the set of [cd, heap, aborted] it may leave.     *)
(* When realloc_nonnull returns None the source allocates a new block,     *)
(* copies len elements into it and releases the old block, and does not    *)
(* store the new pointer: data still names the released block.             *)
(***************************************************************************)
grow(c, h) ==
    IF c.data # NoPtr
    THEN LET new_cap == c.cap + (c.cap \div 2) IN
         {IF r[2] # NoPtr
          THEN [cd |-> [c EXCEPT !.data = r[2], !.cap = new_cap],
                heap |-> r[1], aborted |-> FALSE]
          ELSE LET a == alloc_nonnull(h, new_cap) IN
               [cd |-> [c EXCEPT !.cap = new_cap],
                heap |-> dealloc_nonnull(copy_cells(a[1], c.data, a[2], c.len), c.data),
                aborted |-> FALSE]
            : r \in realloc_nonnull(h, c.data, new_cap)}
         \cup {[cd |-> c, heap |-> h, aborted |-> TRUE]}
    ELSE LET a == alloc_nonnull(h, GROW_FIRST_CAP) IN
         {[cd |-> [c EXCEPT !.cap = GROW_FIRST_CAP, !.data = a[2]],
           heap |-> a[1], aborted |-> FALSE],
          [cd |-> c, heap |-> h, aborted |-> TRUE]}

\* ptr.add(i).write(val).  A write to a slot the column owns stores val.  Any
\* other write is undefined behaviour: the value may land in the memory that
\* is there, or that memory may read back as junk.
write(h, ptr, i, val) ==
    IF owned(h, ptr, i)
    THEN {[heap |-> [h EXCEPT ![ptr].cells[i + 1] = val], ub |-> FALSE]}
    ELSE {[heap |-> [h EXCEPT ![ptr].cells[i + 1] = val], ub |-> TRUE],
          [heap |-> [h EXCEPT ![ptr].cells =
                        [k \in 1..Span |->
                           IF h[ptr].freed \/ k = i + 1 THEN JunkCell ELSE h[ptr].cells[k]]],
           ub |-> TRUE]}

\* A call that finalized nothing, and one that finalized its argument (a value
\* the callee still owns at the end of its scope, or when it unwinds, is dropped).
CdCall(op, T, i, val, ret) ==
    [op |-> op, T |-> T, i |-> i, val |-> val, ret |-> ret,
     fin |-> <<>>, val_dropped |-> FALSE]

CdCallDropVal(op, T, i, val, ret) ==
    [CdCall(op, T, i, val, ret) EXCEPT !.val_dropped = TRUE]

InitCompData ==
    \E T \in Types, c \in 0..MaxCap :
        /\ cd = with_capacity(T, c)[1]
        /\ heap = with_capacity(T, c)[2]
        /\ cd_status = "ok"
        /\ cd_last = CdCall("with_capacity", T, c, UnitCell, None)
        /\ cd_hist = [init_cap |-> c, only_push |-> TRUE, contents |-> <<>>]

(***************************************************************************)
(* CompData::push::<T>(val)                                                *)
(***************************************************************************)
push(T, val) ==
    /\ cd_status = "ok"
    /\ cd.len < MaxLen
    /\ IF cd.elem_type # T
       THEN \* assert_eq!(self.elem_type, TypeId::of::<T>())
            /\ cd_status' = "panicked"
            /\ cd_last' = CdCallDropVal("push", T, 0, val, Panic)
            /\ UNCHANGED <<cd, heap, cd_hist>>
       ELSE IF size_of(T) > 0
            THEN \E g \in (IF cd.data = NoPtr \/ cd.len = cd.cap
                           THEN grow(cd, heap)
                           ELSE {[cd |-> cd, heap |-> heap, aborted |-> FALSE]}) :
                     IF g.aborted
                     THEN \* handle_alloc_error
                          /\ cd_status' = "aborted"
                          /\ cd_last' = CdCall("push", T, 0, val, Panic)
                          /\ UNCHANGED <<cd, heap, cd_hist>>
                     ELSE \E w \in write(g.heap, g.cd.data, g.cd.len, val) :
                             /\ heap' = w.heap
                             /\ cd' = [g.cd EXCEPT !.len = @ + 1]
                             /\ cd_status' = IF w.ub THEN "ub" ELSE "ok"
                             /\ cd_last' = CdCall("push", T, 0, val, None)
                             /\ cd_hist' = [cd_hist EXCEPT !.contents = Append(@, val)]
            ELSE \* val is not moved anywhere: it is dropped when push returns
                 /\ cd' = [cd EXCEPT !.len = @ + 1]
                 /\ cd_last' = CdCallDropVal("push", T, 0, val, None)
                 /\ cd_hist' = [cd_hist EXCEPT !.contents = Append(@, val)]
                 /\ UNCHANGED <<heap, cd_status>>

\* replace that hands val back when i is out of range.
replace_no_bounds_test(T, i, val) ==
    /\ cd_status = "ok"
    /\ IF cd.elem_type # T
       THEN /\ cd_status' = "panicked"
            /\ cd_last' = CdCallDropVal("replace", T, i, val, Panic)
            /\ UNCHANGED <<cd, heap, cd_hist>>
       ELSE IF i >= cd.len
            THEN /\ cd_last' = CdCall("replace", T, i, val, Some(val))
                 /\ UNCHANGED <<cd, heap, cd_status, cd_hist>>
            ELSE /\ cd_hist' = [cd_hist EXCEPT !.only_push = FALSE, !.contents[i + 1] = val]
                 /\ IF size_of(T) > 0
                    THEN /\ heap' = [heap EXCEPT ![cd.data].cells[i + 1] = val]
                         /\ cd_last' = CdCall("replace", T, i, val,
                                              Some(heap[cd.data].cells[i + 1]))
                    ELSE /\ cd_last' = CdCall("replace", T, i, val, Some(val))
                         /\ UNCHANGED heap
                 /\ UNCHANGED <<cd, cd_status>>

(***************************************************************************)
(* CompData::replace::<T>(i, val)                                          *)
(***************************************************************************)
replace(T, i, val) ==
    /\ cd_status = "ok"
    /\ IF cd.elem_type # T \/ i >= cd.len
       THEN \* assert_eq!(self.elem_type, ..); assert!(i < self.len)
            /\ cd_status' = "panicked"
            /\ cd_last' = CdCallDropVal("replace", T, i, val, Panic)
            /\ UNCHANGED <<cd, heap, cd_hist>>
       ELSE /\ cd_hist' = [cd_hist EXCEPT !.only_push = FALSE, !.contents[i + 1] = val]
            /\ IF size_of(T) > 0
               THEN /\ heap' = [heap EXCEPT ![cd.data].cells[i + 1] = val]
                    /\ cd_last' = CdCall("replace", T, i, val, Some(heap[cd.data].cells[i + 1]))
               ELSE /\ cd_last' = CdCall("replace", T, i, val, Some(val))
                    /\ UNCHANGED heap
            /\ UNCHANGED <<cd, cd_status>>

\* swap_remove without the copy of the last element into slot i.
swap_remove_no_copy(i) ==
    /\ cd_status = "ok"
    /\ i < cd.len
    /\ cd_hist' = [cd_hist EXCEPT !.only_push = FALSE, !.contents = vec_swap_remove(@, i)]
    /\ cd' = [cd EXCEPT !.len = @ - 1]
    /\ cd_last' = CdCall("swap_remove", cd.elem_type, i, UnitCell, None)
    /\ UNCHANGED <<heap, cd_status>>

(***************************************************************************)
(* CompData::swap_remove(i)                                                *)
(***************************************************************************)
swap_remove(i) ==
    /\ cd_status = "ok"
    /\ IF i >= cd.len
       THEN \* assert!(i < self.len)
            /\ cd_status' = "panicked"
            /\ cd_last' = CdCall("swap_remove", cd.elem_type, i, UnitCell, Panic)
            /\ UNCHANGED <<cd, heap, cd_hist>>
       ELSE LET new_len == cd.len - 1 IN
            /\ cd_hist' = [cd_hist EXCEPT !.only_push = FALSE,
                                          !.contents = vec_swap_remove(@, i)]
            /\ IF cd.elem_size > 0 /\ i < new_len
               THEN heap' = [heap EXCEPT ![cd.data].cells[i + 1] =
                                            heap[cd.data].cells[new_len + 1]]
               ELSE UNCHANGED heap
            /\ cd' = [cd EXCEPT !.len = new_len]
            /\ cd_last' = [CdCall("swap_remove", cd.elem_type, i, UnitCell, None)
                              EXCEPT !.fin = IF cd.elem_size > 0 THEN <<i>> ELSE <<>>]
            /\ UNCHANGED cd_status

(***************************************************************************)
(* A call of as_typed_slice::<T>() or as_typed_slice_mut::<T>() on the     *)
(* column: it panics or returns the view, and changes nothing.             *)
(***************************************************************************)
slice(T) ==
    /\ cd_status = "ok"
    /\ cd_last' = CdCall("as_typed_slice", T, 0, UnitCell, as_typed_slice(cd, heap, T))
    /\ cd_status' = IF as_typed_slice(cd, heap, T) = Panic THEN "panicked" ELSE "ok"
    /\ UNCHANGED <<cd, heap, cd_hist>>

slice_mut(T) ==
    /\ cd_status = "ok"
    /\ cd_last' = CdCall("as_typed_slice_mut", T, 0, UnitCell,
                         as_typed_slice_mut(cd, heap, T))
    /\ cd_status' = IF as_typed_slice_mut(cd, heap, T) = Panic THEN "panicked" ELSE "ok"
    /\ UNCHANGED <<cd, heap, cd_hist>>

(***************************************************************************)
(* impl Drop for CompData                                                  *)
(* With a buffer: drop_in_place of slots 0..len-1 in that order, then      *)
(* dealloc of cap elements at data.  Without one: nothing.  Touching a     *)
(* slot the column does not own, or releasing a block already released or  *)
(* of another size, is undefined behaviour.  The column is dropped when    *)
(* its owner lets go of it, also while a panic unwinds.                    *)
(***************************************************************************)
drop ==
    /\ cd_status \in {"ok", "panicked", "ub"}
    /\ cd_last.op # "drop"
    /\ IF cd.data # NoPtr
       THEN LET ub == \/ heap[cd.data].freed
                      \/ heap[cd.data].size # cd.cap
                      \/ \E i \in 0..(cd.len - 1) : ~owned(heap, cd.data, i)
            IN  /\ heap' = dealloc_nonnull(heap, cd.data)
                /\ cd_status' = IF ub \/ cd_status = "ub" THEN "ub" ELSE "dropped"
                /\ cd_last' = [CdCall("drop", cd.elem_type, 0, UnitCell, None)
                                  EXCEPT !.fin = [k \in 1..cd.len |-> k - 1]]
       ELSE /\ cd_status' = IF cd_status = "ub" THEN "ub" ELSE "dropped"
            /\ cd_last' = CdCall("drop", cd.elem_type, 0, UnitCell, None)
            /\ UNCHANGED heap
    /\ UNCHANGED <<cd, cd_hist>>

NextCompData ==
    \/ \E T \in Types : \E val \in ValuesOf(T) : push(T, val) /\ UNCHANGED notD
    \/ \E T \in Types : \E i \in 0..MaxLen, val \in ValuesOf(T) :
            replace(T, i, val) /\ UNCHANGED notD
    \/ \E i \in 0..MaxLen : swap_remove(i) /\ UNCHANGED notD
    \/ \E T \in Types : slice(T) /\ UNCHANGED notD
    \/ \E T \in Types : slice_mut(T) /\ UNCHANGED notD
    \/ drop /\ UNCHANGED notD

(***************************************************************************)
(* Entity::new(), called by several threads.                               *)
(* next_id() is one atomic fetch_add(1, SeqCst) on NEXT_ID, which returns  *)
(* the old value and wraps at the width of the counter; Entity::new then   *)
(* unwraps NonZeroU64::new of it, which panics on zero.                    *)
(***************************************************************************)
Threads == 1..NumThreads

NEXT_ID_START == 1

\* fetch_add that adds nothing.
fetch_add_zero(n) == [old |-> n, new |-> n]

fetch_add(n) == [old |-> n, new |-> (n + 1) % (2^WordBits)]

InitAlloc ==
    /\ NEXT_ID = NEXT_ID_START
    /\ th = [t \in Threads |-> [pc |-> "idle", raw |-> 0, ids |-> <<>>]]

next_id(t) ==
    /\ th[t].pc = "idle"
    /\ NEXT_ID <= MaxNew
    /\ NEXT_ID' = fetch_add(NEXT_ID).new
    /\ th' = [th EXCEPT ![t].pc = "fetched", ![t].raw = fetch_add(NEXT_ID).old]

Entity_new(t) ==
    /\ th[t].pc = "fetched"
    /\ IF th[t].raw = 0
       THEN th' = [th EXCEPT ![t].pc = "panicked"]
       ELSE th' = [th EXCEPT ![t].pc = "idle", ![t].ids = Append(@, th[t].raw)]
    /\ UNCHANGED NEXT_ID

NextAlloc ==
    \/ \E t \in Threads : next_id(t) /\ UNCHANGED notE
    \/ \E t \in Threads : Entity_new(t) /\ UNCHANGED notE

(***************************************************************************)
(* CompIter and CompIterMut.                                               *)
(* iter() / iter_mut() borrow the Comptainer, so it is not changed while   *)
(* the iterator lives.  id_iter walks id_to_pos in the map's own order.    *)
(* next() of CompIter indexes comps with a bounds check; next() of         *)
(* CompIterMut offsets the raw pointer without one, which is undefined     *)
(* behaviour for an index outside comps.  size_hint() of both reports      *)
(* comps.len() as lower and upper bound.                                   *)
(***************************************************************************)
size_hint(c) == <<Len(c), Some(Len(c))>>

NoIter == it = [on |-> FALSE, mut |-> FALSE, rest |-> <<>>, ret |-> None]

iter(mut) ==
    /\ ~panicked
    /\ ~it.on
    /\ \E ord \in {f \in [1..len(id_to_pos) -> DOMAIN id_to_pos] :
                      \A j, k \in 1..len(id_to_pos) : f[j] = f[k] => j = k} :
          it' = [on |-> TRUE, mut |-> mut, rest |-> ord, ret |-> None]
    /\ UNCHANGED cvars

iter_next ==
    /\ it.on
    /\ IF it.rest = <<>>
       THEN \* id_iter is exhausted: None; the loop ends and the iterator is dropped
            /\ it' = [it EXCEPT !.on = FALSE, !.ret = None]
            /\ UNCHANGED cvars
       ELSE LET e == Head(it.rest)
                i == id_to_pos[e]
            IN  IF i < Len(comps)
                THEN /\ it' = [it EXCEPT !.rest = Tail(@), !.ret = Some(<<e, i>>)]
                     /\ UNCHANGED cvars
                ELSE IF it.mut
                     THEN /\ it' = [it EXCEPT !.on = FALSE, !.rest = Tail(@),
                                              !.ret = [tag |-> "UB"]]
                          /\ UNCHANGED cvars
                     ELSE /\ it' = [it EXCEPT !.on = FALSE, !.rest = Tail(@), !.ret = Panic]
                          /\ panicked' = TRUE
                          /\ UNCHANGED <<id_to_pos, comps, live, last>>

(***************************************************************************)
(* Deserialize for Entity: the EntityVisitor.                              *)
(* The integer types keep their order of widths in the model: u64 has      *)
(* WordBits bits, the narrower types a fraction of them, the 128-bit types *)
(* half as many again.  "v as u64" keeps the low bits of v.                *)
(***************************************************************************)
Ok(v) == [tag |-> "Ok", val |-> v]
Err == [tag |-> "Err"]

IntTypes == {"u8", "u16", "u32", "u64", "u128", "i8", "i16", "i32", "i64", "i128"}

Signed(ty) == ty \in {"i8", "i16", "i32", "i64", "i128"}

Bits(ty) ==
    CASE ty \in {"u8", "i8"} -> WordBits \div 8
      [] ty \in {"u16", "i16"} -> WordBits \div 4
      [] ty \in {"u32", "i32"} -> WordBits \div 2
      [] ty \in {"u64", "i64"} -> WordBits
      [] ty \in {"u128", "i128"} -> WordBits + (WordBits \div 2)

MinOf(ty) == IF Signed(ty) THEN 0 - 2^(Bits(ty) - 1) ELSE 0

MaxOf(ty) == IF Signed(ty) THEN 2^(Bits(ty) - 1) - 1 ELSE 2^Bits(ty) - 1

U64_MAX == 2^WordBits - 1

as_u64(v) == v % (2^WordBits)

\* NonZeroU64::new(v).ok_or(invalid_value(..))
visit_u64(v) == IF v = 0 THEN Err ELSE Ok(v)

visit_u8(v) == visit_u64(as_u64(v))

visit_u16(v) == visit_u64(as_u64(v))

visit_u32(v) == visit_u64(as_u64(v))

visit_u128(v) == IF v > U64_MAX THEN Err ELSE visit_u64(as_u64(v))

\* visit_i64 without the test of the sign.
visit_i64_no_sign_test(v) == visit_u64(as_u64(v))

visit_i64(v) == IF v < 0 THEN Err ELSE visit_u64(as_u64(v))

visit_i8(v) == IF v < 0 THEN Err ELSE visit_u64(as_u64(v))

visit_i16(v) == IF v < 0 THEN Err ELSE visit_u64(as_u64(v))

visit_i32(v) == IF v < 0 THEN Err ELSE visit_u64(as_u64(v))

visit_i128(v) == IF v < 0 THEN Err ELSE visit_u128(v)

\* The visitor method a deserializer calls for an integer of type ty.
visit(ty, v) ==
    CASE ty = "u8" -> visit_u8(v)
      [] ty = "u16" -> visit_u16(v)
      [] ty = "u32" -> visit_u32(v)
      [] ty = "u64" -> visit_u64(v)
      [] ty = "u128" -> visit_u128(v)
      [] ty = "i8" -> visit_i8(v)
      [] ty = "i16" -> visit_i16(v)
      [] ty = "i32" -> visit_i32(v)
      [] ty = "i64" -> visit_i64(v)
      [] ty = "i128" -> visit_i128(v)

\* The integers of type ty given to the visitor.
Given(ty) ==
    {v \in (MinOf(ty)..(MinOf(ty) + Near)) \cup ((0 - Near)..Near)
            \cup ((U64_MAX - Near)..(U64_MAX + Near))
            \cup ((MaxOf(ty) - Near)..MaxOf(ty)) :
        MinOf(ty) <= v /\ v <= MaxOf(ty)}

IdleTok == tok = [phase |-> "none", ty |-> "u64", v |-> 0, res |-> Err]

InitTok ==
    \E ty \in IntTypes : \E v \in Given(ty) :
        tok = [phase |-> "given", ty |-> ty, v |-> v, res |-> Err]

\* Entity::deserialize: deserializer.deserialize_u64(EntityVisitor)
Entity_deserialize ==
    /\ tok.phase = "given"
    /\ tok' = [tok EXCEPT !.phase = "visited", !.res = visit(tok.ty, tok.v)]

NextToken == Entity_deserialize /\ UNCHANGED notK

(***************************************************************************)
(* Serialize / Deserialize for Comptainer.                                 *)
(* serialize writes one entry (e, comps[idx]) per entry (e, idx) of        *)
(* id_to_pos, in the hash map's iteration order (any order), the entity as *)
(* the u64 of its id; comps[idx] is a bounds-checked index.  The component *)
(* is written and read back by its own Serialize / Deserialize, taken here *)
(* to return the value it was given.                                       *)
(* deserialize starts from Comptainer::with_capacity(size_hint), and       *)
(* visit_map reads the entries one by one: the key through the Entity      *)
(* visitor, whose error ends the load, then add_component(key, value).     *)
(***************************************************************************)
Orders(S) ==
    {f \in [1..Cardinality(S) -> S] :
        \A j, k \in 1..Cardinality(S) : f[j] = f[k] => j = k}

serialize_u64(e) == e

IdleWire == wire = [phase |-> "build", input |-> <<>>, rest |-> <<>>, saved |-> EmptyMap]

serialize ==
    /\ wire.phase = "build"
    /\ ~panicked
    /\ IF iter_panics(id_to_pos, comps)
       THEN /\ wire' = [wire EXCEPT !.phase = "panicked", !.saved = live]
            /\ last' = Call("serialize", 0, 0, Panic)
            /\ panicked' = TRUE
       ELSE /\ \E ord \in Orders(DOMAIN id_to_pos) :
                 LET out == [k \in 1..len(id_to_pos) |->
                               [key |-> serialize_u64(ord[k]),
                                val |-> comps[id_to_pos[ord[k]] + 1]]]
                 IN  wire' = [phase |-> "saved", input |-> out, rest |-> out,
                              saved |-> live]
            /\ last' = Call("serialize", 0, 0, None)
            /\ UNCHANGED panicked
    /\ UNCHANGED <<id_to_pos, comps, live>>

deserialize ==
    /\ wire.phase = "saved"
    /\ wire' = [wire EXCEPT !.phase = "load"]
    /\ id_to_pos' = EmptyMap
    /\ comps' = <<>>
    /\ live' = EmptyMap
    /\ last' = [op |-> "with_capacity", e |-> 0, v |-> 0, ret |-> None,
                pre_pos |-> EmptyMap, pre_comps |-> <<>>, pre_live |-> EmptyMap]
    /\ panicked' = FALSE

next_entry ==
    /\ wire.phase = "load"
    /\ wire.rest # <<>>
    /\ LET key == visit_u64(Head(wire.rest).key) IN
       IF key = Err
       THEN /\ wire' = [wire EXCEPT !.phase = "failed"]
            /\ UNCHANGED cvars
       ELSE /\ add_component(key.val, Head(wire.rest).val)
            /\ wire' = [wire EXCEPT !.rest = Tail(@)]

visit_map_end ==
    /\ wire.phase = "load"
    /\ wire.rest = <<>>
    /\ wire' = [wire EXCEPT !.phase = "done"]
    /\ UNCHANGED cvars

\* Build a Comptainer, serialize it, deserialize what was written.
NextRoundTrip ==
    \/ \E e \in Entities, v \in Values :
          wire.phase = "build" /\ add_component(e, v) /\ UNCHANGED notC
    \/ \E e \in Entities :
          wire.phase = "build" /\ remove_component(e) /\ UNCHANGED notC
    \/ serialize /\ UNCHANGED notS
    \/ deserialize /\ UNCHANGED notS
    \/ next_entry /\ UNCHANGED notS
    \/ visit_map_end /\ UNCHANGED notS

\* Deserialize a map given from outside.
NextLoad ==
    \/ deserialize /\ UNCHANGED notS
    \/ next_entry /\ UNCHANGED notS
    \/ visit_map_end /\ UNCHANGED notS

\* The maps given from outside: up to MaxInput entries, keys any u64 in
\* 0..NumEntities (0 is no entity), in any order and with repetitions.
Inputs ==
    UNION {[1..n -> [key : 0..NumEntities, val : Values]] : n \in 0..MaxInput}

InitLoad ==
    \E inp \in Inputs :
        wire = [phase |-> "saved", input |-> inp, rest |-> inp, saved |-> EmptyMap]

(***************************************************************************)
(* Components: one std::sync::RwLock per component kind.                   *)
(* read() returns a guard once no thread holds the write guard of that     *)
(* lock; write() returns one once no thread holds any guard of it; a guard *)
(* is given back when it is dropped.  A thread that holds a read guard is  *)
(* given another by read() like any reader; a thread that holds a guard    *)
(* and asks for one that its own guard excludes is never given it.         *)
(***************************************************************************)
KindNames ==
    <<"transforms", "static_mesh_instances", "cameras", "action_handlers",
      "physics_bodies", "collision_shapes", "uis">>

Kinds == {KindNames[k] : k \in 1..NumKinds}

readers(h, k) == {t \in DOMAIN h : h[t][k] = "read"}

writers(h, k) == {t \in DOMAIN h : h[t][k] = "write"}

can_read(h, k) == writers(h, k) = {}

\* A write lock granted while other threads read.
can_write_beside_readers(h, k) == writers(h, k) = {}

can_write(h, k) == writers(h, k) = {} /\ readers(h, k) = {}

InitLocks ==
    /\ held = [t \in Threads |-> [k \in Kinds |-> "none"]]
    /\ nested = [t \in Threads |-> [k \in Kinds |-> 0]]

rw_read(t, k) ==
    /\ can_read(held, k)
    /\ IF held[t][k] = "read"
       THEN /\ nested' = [nested EXCEPT ![t][k] = @ + 1]
            /\ UNCHANGED held
       ELSE /\ held' = [held EXCEPT ![t][k] = "read"]
            /\ UNCHANGED nested

rw_write(t, k) ==
    /\ held[t][k] = "none"
    /\ can_write(held, k)
    /\ held' = [held EXCEPT ![t][k] = "write"]
    /\ UNCHANGED nested

drop_guard(t, k) ==
    /\ held[t][k] # "none"
    /\ IF nested[t][k] > 0
       THEN /\ nested' = [nested EXCEPT ![t][k] = @ - 1]
            /\ UNCHANGED held
       ELSE /\ held' = [held EXCEPT ![t][k] = "none"]
            /\ UNCHANGED nested

NextLocks ==
    \/ \E t \in Threads, k \in Kinds :
            /\ held[t][k] = "read" =>
                   Cardinality({x \in Threads \X Kinds \X (1..MaxNest) :
                                   x[3] <= nested[x[1]][x[2]]}) < MaxNest
            /\ rw_read(t, k)
            /\ UNCHANGED notL
    \/ \E t \in Threads, k \in Kinds : rw_write(t, k) /\ UNCHANGED notL
    \/ \E t \in Threads, k \in Kinds : drop_guard(t, k) /\ UNCHANGED notL

(***************************************************************************)
(* The main, game and render threads, as the sequence of lock operations   *)
(* each performs in one turn of its loop.  An instruction is acq (read()   *)
(* or write() on a lock, which blocks until granted), rel (the guard goes  *)
(* out of scope), nop (a choice of the code that takes no lock) or event   *)
(* (the main thread waits for the window system), spawn (new_system        *)
(* starts the thread of a system) or join (SystemData::drop waits for the  *)
(* thread of the Game system).  next lists the instructions that may       *)
(* follow; 0 is the return from run().                                     *)
(***************************************************************************)
Systems == {"main", "game", "render"}

Locks == {KindNames[k] : k \in 1..Len(KindNames)} \cup {"input"}

Acq(l, m, nx) == [op |-> "acq", lock |-> l, mode |-> m, next |-> nx]
Rel(l, nx) == [op |-> "rel", lock |-> l, mode |-> "none", next |-> nx]
Nop(nx) == [op |-> "nop", lock |-> "input", mode |-> "none", next |-> nx]
Event(nx) == [op |-> "event", lock |-> "input", mode |-> "none", next |-> nx]

Spawn(t) == [op |-> "spawn", lock |-> "input", mode |-> "none", next |-> {}, thread |-> t]

\* components.<l>.write().unwrap().add_component(..): the guard is a temporary.
add_locked(l) == <<Acq(l, "write", {}), Rel(l, {})>>

\* Straight-line code placed after the first base instructions of a program.
Straight(ops, base) == [i \in 1..Len(ops) |-> [ops[i] EXCEPT !.next = {base + i + 1}]]

\* Player::new.
PlayerNew == add_locked("transforms") \o add_locked("cameras") \o add_locked("action_handlers")

\* make_monkey of Game::new.
make_monkey ==
    add_locked("transforms") \o add_locked("static_mesh_instances") \o add_locked("physics_bodies")

\* App::resumed: new_system::<Render>, then new_system::<Game>, whose Game::new
\* runs on the main thread before the game thread is spawned.
Resumed ==
    <<Spawn("render")>> \o PlayerNew \o add_locked("uis")
    \o make_monkey \o make_monkey \o make_monkey \o <<Spawn("game")>>

\* The first instruction of the event loop of the main thread.
Events == Len(Resumed) + 1

\* sender.send(GameMessage::Input(action)) of the event handlers.
SendInput == Events + 3

\* The App is dropped, its fields in the order of their declaration:
\* SystemData::drop of the Render system, then of the Game system, each
\* sender.send(stop_msg()), then thread.join().
DropRender == Events + 4

DropGame == Events + 6

Join(t, nx) == [op |-> "join", lock |-> "input", mode |-> "none", next |-> nx, thread |-> t]

\* App::resumed, then App::window_event / device_event for each event:
\* self.input.write().unwrap().handle_..(..), and the action it gave, if any,
\* sent to the Game system; at the end the App is dropped.
MainProg ==
    Straight(Resumed, 0) \o
    <<Event({Events + 1, DropRender}),
      Acq("input", "write", {Events + 2}),
      Rel("input", {Events, SendInput}),
      Nop({Events}),
      Nop({DropRender + 1}),
      Join("render", {DropGame}),
      Nop({DropGame + 1}),
      Join("game", {0})>>

\* Player::step handles the actions it took out of its queue one after the
\* other; the queue holds what was sent, at most MaxMsgs actions.
LookLoop(k) ==
    <<Acq("transforms", "write", {5 + 2 * k}),
      Rel("transforms", (IF k < MaxMsgs THEN {6 + 2 * k} ELSE {}) \cup {6 + 2 * MaxMsgs})>>

RECURSIVE LookLoops(_)
LookLoops(k) == IF k > MaxMsgs THEN <<>> ELSE LookLoop(k) \o LookLoops(k + 1)

\* The instruction of Game::run that follows the actions of Player::step.
AfterLook == 6 + 2 * MaxMsgs

\* The last instruction of a turn of Game::run: UI::step gives back the input lock.
EndOfSteps == AfterLook + 13

\* Game::run: the messages of try_iter, then Player::step, PhysicsProcess::step
\* and UI::step.
GameProg ==
    <<Nop({0, 2, 4}),
      Acq("action_handlers", "write", {3}),
      Rel("action_handlers", {1}),
      Acq("action_handlers", "write", {5}),
      Rel("action_handlers", {6, AfterLook})>>
    \o LookLoops(1) \o
    <<Acq("input", "read", {AfterLook + 1}),
      Rel("input", {AfterLook + 2, AfterLook + 4}),
      Acq("transforms", "write", {AfterLook + 3}),
      Rel("transforms", {AfterLook + 4}),
      Acq("transforms", "write", {AfterLook + 5}),
      Acq("physics_bodies", "write", {AfterLook + 6}),
      Acq("collision_shapes", "read", {AfterLook + 7}),
      Rel("collision_shapes", {AfterLook + 8}),
      Rel("physics_bodies", {AfterLook + 9}),
      Rel("transforms", {AfterLook + 10}),
      Acq("input", "write", {AfterLook + 11}),
      Acq("uis", "write", {AfterLook + 12}),
      Rel("uis", {AfterLook + 13}),
      Rel("input", {1})>>

\* Render::run with the camera's transform guard kept while global_motor takes
\* the transforms lock again.
RenderProgNestedRead ==
    <<Nop({0, 2}),
      Acq("static_mesh_instances", "write", {3}),
      Rel("static_mesh_instances", {4}),
      Acq("cameras", "read", {5}),
      Rel("cameras", {1, 6}),
      Acq("transforms", "read", {7}),
      Acq("transforms", "read", {8}),
      Rel("transforms", {9}),
      Rel("transforms", {10}),
      Acq("transforms", "read", {11}),
      Rel("transforms", {1})>>

\* Render::run: the messages of try_iter, the mesh instances, the camera, its
\* transform, its global motor, then the transforms of the meshes drawn.
RenderProg ==
    <<Nop({0, 2}),
      Acq("static_mesh_instances", "write", {3}),
      Rel("static_mesh_instances", {4}),
      Acq("cameras", "read", {5}),
      Rel("cameras", {1, 6}),
      Acq("transforms", "read", {7}),
      Rel("transforms", {8}),
      Acq("transforms", "read", {9}),
      Rel("transforms", {10}),
      Acq("transforms", "read", {11}),
      Rel("transforms", {1})>>

Prog(t) ==
    CASE t = "main" -> MainProg
      [] t = "game" -> GameProg
      [] t = "render" -> RenderProg

Instr(t) == Prog(t)[pc[t]]

\* The threads blocked in write() on lock k.
waiting_writers(k) ==
    {u \in Systems : pc[u] > 0 /\ Instr(u).op = "acq" /\ Instr(u).lock = k
                       /\ Instr(u).mode = "write"}

IdleSystems == pc = [t \in Systems |-> 0] /\ policy = "readers_first"

InitSystems ==
    /\ pc = [t \in Systems |-> IF t = "main" THEN 1 ELSE -1]
    /\ policy \in {"readers_first", "writers_first"}
    /\ held = [t \in Systems |-> [k \in Locks |-> "none"]]
    /\ nested = [t \in Systems |-> [k \in Locks |-> 0]]

sys_acquire(t) ==
    /\ pc[t] > 0
    /\ Instr(t).op = "acq"
    /\ IF Instr(t).mode = "read"
       THEN /\ policy = "writers_first" => waiting_writers(Instr(t).lock) = {}
            /\ rw_read(t, Instr(t).lock)
       ELSE rw_write(t, Instr(t).lock)
    /\ \E n \in Instr(t).next : pc' = [pc EXCEPT ![t] = n]
    /\ UNCHANGED policy

sys_release(t) ==
    /\ pc[t] > 0
    /\ Instr(t).op = "rel"
    /\ drop_guard(t, Instr(t).lock)
    /\ \E n \in Instr(t).next : pc' = [pc EXCEPT ![t] = n]
    /\ UNCHANGED policy

sys_choice(t) ==
    /\ pc[t] > 0
    /\ Instr(t).op = "nop"
    /\ \E n \in Instr(t).next : pc' = [pc EXCEPT ![t] = n]
    /\ UNCHANGED <<policy, held, nested>>

sys_event(t) ==
    /\ pc[t] > 0
    /\ Instr(t).op = "event"
    /\ \E n \in Instr(t).next : pc' = [pc EXCEPT ![t] = n]
    /\ UNCHANGED <<policy, held, nested>>

\* new_system: thread::Builder::spawn of the system's run().
sys_spawn(t) ==
    /\ pc[t] > 0
    /\ Instr(t).op = "spawn"
    /\ \E n \in Instr(t).next : pc' = [pc EXCEPT ![t] = n, ![Instr(t).thread] = 1]
    /\ UNCHANGED <<policy, held, nested>>

\* SystemData::drop: thread.join() returns once the thread's run() has.
sys_join(t) ==
    /\ pc[t] > 0
    /\ Instr(t).op = "join"
    /\ pc[Instr(t).thread] = 0
    /\ \E n \in Instr(t).next : pc' = [pc EXCEPT ![t] = n]
    /\ UNCHANGED <<policy, held, nested>>

\* What a thread does without waiting for the outside world.
sys_run(t) ==
    sys_acquire(t) \/ sys_release(t) \/ sys_choice(t) \/ sys_spawn(t) \/ sys_join(t)

NextSystems ==
    \/ \E t \in Systems : sys_acquire(t) /\ UNCHANGED notPL
    \/ \E t \in Systems : sys_release(t) /\ UNCHANGED notPL
    \/ \E t \in Systems : sys_choice(t) /\ UNCHANGED notPL
    \/ \E t \in Systems : sys_event(t) /\ UNCHANGED notPL
    \/ \E t \in Systems : sys_spawn(t) /\ UNCHANGED notPL
    \/ \E t \in Systems : sys_join(t) /\ UNCHANGED notPL

(***************************************************************************)
(* input::ActionFlags and input::Action, ActionHandler, and the loop of    *)
(* Game::run with the channel that feeds it.                               *)
(***************************************************************************)
PRIMARY_INTERACT == 0
SECONDARY_INTERACT == 1
PAUSE == 2
LOOK == 4

Actions == {"PrimaryInteract", "SecondaryInteract", "Pause", "Look"}

\* The ActionFlags value of each kind: the enum's discriminants.
bits(a) ==
    CASE a = "PrimaryInteract" -> PRIMARY_INTERACT
      [] a = "SecondaryInteract" -> SECONDARY_INTERACT
      [] a = "Pause" -> PAUSE
      [] a = "Look" -> LOOK

\* Action::discriminant reads the discriminant the enum stores first.
discriminant(a) == bits(a)

RECURSIVE BitAnd(_, _)
BitAnd(x, y) ==
    IF x = 0 \/ y = 0 THEN 0
    ELSE 2 * BitAnd(x \div 2, y \div 2) + (IF x % 2 = 1 /\ y % 2 = 1 THEN 1 ELSE 0)

RECURSIVE BitOr(_, _)
BitOr(x, y) ==
    IF x = 0 THEN y
    ELSE IF y = 0 THEN x
    ELSE 2 * BitOr(x \div 2, y \div 2) + (IF x % 2 = 1 \/ y % 2 = 1 THEN 1 ELSE 0)

\* ActionFlags::contains, as bitflags defines it.
contains(flags, other) == BitAnd(flags, other) = other

\* a | b | ... of the flags of the kinds in K.
RECURSIVE flags_of(_)
flags_of(K) ==
    IF K = {} THEN 0
    ELSE LET a == CHOOSE a \in K : TRUE IN BitOr(bits(a), flags_of(K \ {a}))

\* ActionHandler::new for a handler meant to handle the kinds in K.
ActionHandler_new(K) ==
    [kinds |-> K, handled_actions |-> flags_of(K), action_queue |-> <<>>]

\* try_handle_action: the handler afterwards and the value returned.
try_handle_action(h, action) ==
    IF contains(h.handled_actions, discriminant(action))
    THEN [handler |-> [h EXCEPT !.action_queue = Append(@, action)], ret |-> TRUE]
    ELSE [handler |-> h, ret |-> FALSE]

\* The loop of Game::run over iter_mut(): each handler from the i-th on is
\* offered the action until one takes it.  The handlers afterwards, and the
\* return values of the calls made.
RECURSIVE offer(_, _, _, _)
offer(hs, i, action, rets) ==
    IF i > Len(hs) THEN [handlers |-> hs, rets |-> rets]
    ELSE LET r == try_handle_action(hs[i], action)
             hs2 == [hs EXCEPT ![i] = r.handler]
         IN  IF r.ret THEN [handlers |-> hs2, rets |-> Append(rets, TRUE)]
             ELSE offer(hs2, i + 1, action, Append(rets, FALSE))

\* The loop without its break: every handler is offered the action.
RECURSIVE offer_all(_, _, _, _)
offer_all(hs, i, action, rets) ==
    IF i > Len(hs) THEN [handlers |-> hs, rets |-> rets]
    ELSE LET r == try_handle_action(hs[i], action)
         IN  offer_all([hs EXCEPT ![i] = r.handler], i + 1, action, Append(rets, r.ret))

NoMsg == [n |-> 0, m |-> "Stop"]

NoCall == [on |-> FALSE, action |-> "Look", before |-> <<>>, rets |-> <<>>]

IdleGame ==
    /\ receiver = <<>>
    /\ sent = <<>>
    /\ action_handlers = <<>>
    /\ dispatched = <<>>
    /\ run = "returned"
    /\ joined = FALSE
    /\ handled = NoCall
    /\ player = 1
    /\ send_ret = "none"
    /\ msg = NoMsg
    /\ actions = <<>>

\* The program as App::resumed finds it: no system made, no component added.
InitGame ==
    /\ receiver = <<>>
    /\ sent = <<>>
    /\ action_handlers = <<>>
    /\ dispatched = <<>>
    /\ run = "new"
    /\ joined = FALSE
    /\ handled = NoCall
    /\ player = 1
    /\ send_ret = "none"
    /\ msg = NoMsg
    /\ actions = <<>>

\* The Game system made, with the Player's handler among others, each made
\* for some kinds, at any place of the order iter_mut visits them in.
InitHandlers ==
    /\ receiver = <<>>
    /\ sent = <<>>
    /\ \E n \in 1..NumHandlers :
           /\ action_handlers \in [1..n -> {ActionHandler_new(K) : K \in SUBSET Actions}]
           /\ player \in {i \in 1..n : action_handlers[i] = ActionHandler_new({"Look"})}
    /\ dispatched = <<>>
    /\ run = "new"
    /\ joined = FALSE
    /\ handled = NoCall
    /\ send_ret = "none"
    /\ msg = NoMsg
    /\ actions = <<>>

StopSent == \E i \in 1..Len(sent) : sent[i] = "Stop"

\* The Input messages sent so far.
InputsSent == Cardinality({i \in 1..Len(sent) : sent[i] = "Input"})

\* Sender::send: once run has returned the Receiver is gone, send returns Err
\* and nothing is queued.
send(m) ==
    IF run = "returned"
    THEN /\ send_ret' = "Err"
         /\ UNCHANGED <<sent, receiver>>
    ELSE /\ send_ret' = "Ok"
         /\ sent' = Append(sent, IF m = "Stop" THEN "Stop" ELSE "Input")
         /\ receiver' = Append(receiver, [n |-> Len(sent) + 1, m |-> m])

\* Player::new, on the main thread within Game::new: the handler of the Player
\* is added under the write guard of action_handlers.
Player_new ==
    /\ action_handlers' = <<ActionHandler_new({"Look"})>>
    /\ player' = 1
    /\ UNCHANGED <<receiver, sent, dispatched, run, joined, handled, send_ret, msg, actions>>

\* new_system::<Game>: the thread of Game::run starts.
spawn_game ==
    /\ run' = "try_iter"
    /\ UNCHANGED <<receiver, sent, action_handlers, dispatched, joined, handled, player, send_ret, msg, actions>>

\* The event handlers decide, the input guard given back, whether the event
\* gave an action to send.
handle_event ==
    /\ pc'["main"] = SendInput => InputsSent < MaxMsgs
    /\ UNCHANGED gvars

\* The event handlers of the main thread: sender.send(GameMessage::Input(action));
\* on Err the handler panics.
send_input(action) ==
    /\ send(action)
    /\ UNCHANGED <<action_handlers, dispatched, run, joined, handled, player, msg, actions>>

\* SystemData::drop: sender.send(M::stop_msg()); an Err is logged.
send_stop ==
    /\ send("Stop")
    /\ UNCHANGED <<action_handlers, dispatched, run, joined, handled, player, msg, actions>>

\* SystemData::drop: thread.join().
join ==
    /\ joined' = TRUE
    /\ UNCHANGED <<receiver, sent, action_handlers, dispatched, run, handled, player, send_ret, msg, actions>>

\* What the instruction the main thread is at does to the Game system.
main_effect ==
    CASE Instr("main").op = "acq" /\ Instr("main").lock = "action_handlers" -> Player_new
      [] Instr("main").op = "spawn" /\ Instr("main").thread = "game" -> spawn_game
      [] Instr("main").op = "rel" /\ pc["main"] > Events -> handle_event
      [] pc["main"] = SendInput -> \E a \in Actions : send_input(a)
      [] pc["main"] = DropGame -> send_stop
      [] Instr("main").op = "join" /\ Instr("main").thread = "game" -> join
      [] OTHER -> UNCHANGED gvars

\* One turn of the for loop over try_iter() that goes on after a Stop.
try_iter_next_ignoring_stop ==
    /\ IF receiver = <<>>
       THEN /\ pc'["game"] = 4
            /\ run' = "steps"
            /\ UNCHANGED <<receiver, msg>>
       ELSE /\ receiver' = Tail(receiver)
            /\ IF Head(receiver).m = "Stop"
               THEN /\ pc'["game"] = 1
                    /\ UNCHANGED <<run, msg>>
               ELSE /\ pc'["game"] = 2
                    /\ msg' = Head(receiver)
                    /\ UNCHANGED run
    /\ UNCHANGED <<sent, action_handlers, dispatched, joined, handled, player, send_ret, actions>>

\* One turn of the for loop over try_iter(): no message, and the loop ends
\* (the sleep and the steps follow); a Stop, and run returns; an Input, and
\* the body of the loop has its action.
try_iter_next ==
    /\ IF receiver = <<>>
       THEN /\ pc'["game"] = 4
            /\ run' = "steps"
            /\ UNCHANGED <<receiver, msg>>
       ELSE /\ receiver' = Tail(receiver)
            /\ IF Head(receiver).m = "Stop"
               THEN /\ pc'["game"] = 0
                    /\ run' = "returned"
                    /\ UNCHANGED msg
               ELSE /\ pc'["game"] = 2
                    /\ msg' = Head(receiver)
                    /\ UNCHANGED run
    /\ UNCHANGED <<sent, action_handlers, dispatched, joined, handled, player, send_ret, actions>>

\* The body of the loop for an Input: under the write guard of action_handlers
\* the handlers are offered the action.
handle_input ==
    LET o == offer(action_handlers, 1, msg.m, <<>>)
    IN  /\ action_handlers' = o.handlers
        /\ dispatched' = Append(dispatched, msg.n)
        /\ handled' = [on |-> TRUE, action |-> msg.m,
                        before |-> action_handlers, rets |-> o.rets]
        /\ msg' = NoMsg
        /\ UNCHANGED <<receiver, sent, run, joined, player, send_ret, actions>>

\* The for loop over the handlers is over and its guard given back.
handled_input ==
    /\ handled' = NoCall
    /\ UNCHANGED <<receiver, sent, action_handlers, dispatched, run, joined, player, send_ret, msg, actions>>

\* Player::step: mem::take of the queue of the Player's handler, under the
\* write guard of action_handlers.  Only the Look actions have an effect.
take_queue ==
    /\ actions' = SelectSeq(action_handlers[player].action_queue, LAMBDA a : a = "Look")
    /\ action_handlers' = [action_handlers EXCEPT ![player].action_queue = <<>>]
    /\ UNCHANGED <<receiver, sent, dispatched, run, joined, handled, player, send_ret, msg>>

\* Player::step: the for loop over the actions goes on while there is one.
next_action ==
    /\ (pc'["game"] = AfterLook) <=> (actions = <<>>)
    /\ UNCHANGED gvars

\* Player::step: a Look action turns the Player's transform.
look ==
    /\ actions' = Tail(actions)
    /\ UNCHANGED <<receiver, sent, action_handlers, dispatched, run, joined, handled, player, send_ret, msg>>

\* The steps are done: the loop of Game::run is back at try_iter().
end_of_steps ==
    /\ run' = "try_iter"
    /\ UNCHANGED <<receiver, sent, action_handlers, dispatched, joined, handled, player, send_ret, msg, actions>>

\* What the instruction the game thread is at does to the Game system.
game_effect ==
    CASE pc["game"] = 1 -> try_iter_next
      [] pc["game"] = 2 -> handle_input
      [] pc["game"] = 3 -> handled_input
      [] pc["game"] = 4 -> take_queue
      [] pc["game"] >= 5 /\ pc["game"] < AfterLook /\ Instr("game").op = "rel" -> next_action
      [] pc["game"] >= 5 /\ pc["game"] < AfterLook /\ Instr("game").op = "acq" -> look
      [] pc["game"] = EndOfSteps -> end_of_steps
      [] OTHER -> UNCHANGED gvars

effect(t) ==
    CASE t = "main" -> main_effect
      [] t = "game" -> game_effect
      [] OTHER -> UNCHANGED gvars

\* A step of a thread: the lock operation of its instruction and what the
\* instruction does to the Game system.
NextGame ==
    \/ \E t \in Systems : sys_acquire(t) /\ effect(t) /\ UNCHANGED notPLG
    \/ \E t \in Systems : sys_release(t) /\ effect(t) /\ UNCHANGED notPLG
    \/ \E t \in Systems : sys_choice(t) /\ effect(t) /\ UNCHANGED notPLG
    \/ \E t \in Systems : sys_event(t) /\ effect(t) /\ UNCHANGED notPLG
    \/ \E t \in Systems : sys_spawn(t) /\ effect(t) /\ UNCHANGED notPLG
    \/ \E t \in Systems : sys_join(t) /\ effect(t) /\ UNCHANGED notPLG

(***************************************************************************)
(* The specifications.                                                     *)
(***************************************************************************)
vars == <<cvars, dvars, evars, svars, kvars, lvars, ivars, pvars, gvars>>

\* A column nobody uses: CompData::new::<u32>().
IdleColumn ==
    /\ cd = with_capacity("u32", 0)[1]
    /\ heap = with_capacity("u32", 0)[2]
    /\ cd_status = "ok"
    /\ cd_last = CdCall("with_capacity", "u32", 0, UnitCell, None)
    /\ cd_hist = [init_cap |-> 0, only_push |-> TRUE, contents |-> <<>>]

\* One Comptainer, from Comptainer::new(), under add_component,
\* remove_component and take; the column and the allocator of ids are not used.
Init == InitComptainer /\ IdleColumn /\ InitAlloc /\ IdleWire /\ IdleTok /\ InitLocks /\ NoIter /\ IdleSystems /\ IdleGame

Next == NextComptainer

Spec == Init /\ [][Next]_vars

\* One CompData column, from with_capacity::<T>(c) for any element type and any
\* c in 0..MaxCap, under push, replace and swap_remove until it is dropped; the
\* rest is not used.
InitColumn == InitCompData /\ InitComptainer /\ InitAlloc /\ IdleWire /\ IdleTok /\ InitLocks /\ NoIter /\ IdleSystems /\ IdleGame

NextColumn == NextCompData

SpecCompData == InitColumn /\ [][NextColumn]_vars

\* NumThreads threads, each calling Entity::new() again and again, in any
\* interleaving of their steps.
InitEntity == InitAlloc /\ InitComptainer /\ IdleColumn /\ IdleWire /\ IdleTok /\ InitLocks /\ NoIter /\ IdleSystems /\ IdleGame

NextEntity == NextAlloc

SpecEntity == InitEntity /\ [][NextEntity]_vars

\* One Comptainer under add_component and remove_component, then serialized,
\* and what was written deserialized into a new Comptainer.
InitRoundTrip == InitComptainer /\ IdleWire /\ IdleColumn /\ InitAlloc /\ IdleTok /\ InitLocks /\ NoIter /\ IdleSystems /\ IdleGame

SpecRoundTrip == InitRoundTrip /\ [][NextRoundTrip]_vars

\* A Comptainer deserialized from any of Inputs.
InitSerde == InitLoad /\ InitComptainer /\ IdleColumn /\ InitAlloc /\ IdleTok /\ InitLocks /\ NoIter /\ IdleSystems /\ IdleGame

SpecLoad == InitSerde /\ [][NextLoad]_vars

\* One integer of any of the types the Entity visitor accepts, handed to it.
InitToken == InitTok /\ InitComptainer /\ IdleColumn /\ InitAlloc /\ IdleWire /\ InitLocks /\ NoIter /\ IdleSystems /\ IdleGame

SpecEntityDe == InitToken /\ [][NextToken]_vars

\* One Comptainer under add_component and remove_component, and iterated
\* with iter() or iter_mut() between them.
InitIter == InitComptainer /\ IdleColumn /\ InitAlloc /\ IdleWire /\ IdleTok /\ InitLocks /\ NoIter /\ IdleSystems /\ IdleGame

NextIter ==
    \/ \E e \in Entities, v \in Values : ~it.on /\ add_component(e, v) /\ UNCHANGED notC
    \/ \E e \in Entities : ~it.on /\ remove_component(e) /\ UNCHANGED notC
    \/ \E mut \in BOOLEAN : iter(mut) /\ UNCHANGED notCI
    \/ iter_next /\ UNCHANGED notCI

SpecIter == InitIter /\ [][NextIter]_vars

\* The program from App::resumed on: the three threads, their locks, and the
\* messages of the Game system.  A thread that can run from some point on
\* does run.
InitRun == InitGame /\ InitSystems /\ InitComptainer /\ IdleColumn /\ InitAlloc /\ IdleWire /\ IdleTok /\ NoIter

SpecGame ==
    /\ InitRun
    /\ [][NextGame]_vars
    /\ \A t \in Systems : WF_vars(sys_run(t) /\ effect(t) /\ UNCHANGED notPLG)

\* The Game system about to be spawned over any handlers, the render thread
\* gone already.
InitGameMade ==
    /\ pc = [t \in Systems |-> CASE t = "main" -> Events - 1 [] t = "game" -> -1 [] OTHER -> 0]
    /\ policy \in {"readers_first", "writers_first"}
    /\ held = [t \in Systems |-> [k \in Locks |-> "none"]]
    /\ nested = [t \in Systems |-> [k \in Locks |-> 0]]

InitDispatch == InitHandlers /\ InitGameMade /\ InitComptainer /\ IdleColumn /\ InitAlloc /\ IdleWire /\ IdleTok /\ NoIter

SpecDispatch == InitDispatch /\ [][NextGame]_vars

\* The main, game and render threads running their loops.  A thread that
\* can run from some point on does run.  Nothing is assumed about which of
\* the threads asking for a lock gets it: RwLock promises no order.
InitThreads == InitSystems /\ InitComptainer /\ IdleColumn /\ InitAlloc /\ IdleWire /\ IdleTok /\ NoIter /\ IdleGame

SpecSystems ==
    /\ InitThreads
    /\ [][NextSystems]_vars
    /\ \A t \in Systems : WF_vars(sys_run(t) /\ UNCHANGED notPL)

\* The threads taking and giving back the locks of Components, in any order.
InitComponents == InitLocks /\ InitComptainer /\ IdleColumn /\ InitAlloc /\ IdleWire /\ IdleTok /\ NoIter /\ IdleSystems /\ IdleGame

SpecLocks == InitComponents /\ [][NextLocks]_vars

(***************************************************************************)
(* Claims about the Comptainer, checked under Spec.                        *)
(***************************************************************************)

\* C1 (density): after every operation the number of entries of id_to_pos
\* equals the length of comps, and every index stored in the map is strictly
\* less than that length.
C1_Density ==
    ~panicked =>
        /\ len(id_to_pos) = Len(comps)
        /\ \A e \in DOMAIN id_to_pos : id_to_pos[e] < Len(comps)

\* C2 (no duplicate index): any two different entities present in id_to_pos
\* are mapped to different dense indices.
C2_NoDuplicateIndex ==
    \A e1, e2 \in DOMAIN id_to_pos :
        e1 # e2 => id_to_pos[e1] # id_to_pos[e2]

\* C3 (remove, then get): when entity e holds a component, remove_component(e)
\* returns true and erases e's own map entry: afterwards has_component(e) is
\* false and get(e) is None (neither a panic nor another entity's value).
C3_RemoveThenAbsent ==
    (last.op = "remove" /\ last.e \in DOMAIN last.pre_live) =>
        /\ last.ret = Bool(TRUE)
        /\ ~has_component(id_to_pos, last.e)
        /\ get(id_to_pos, comps, last.e) = None

\* C4 (add, then get): add_component(e, v) followed directly by get(e) returns
\* Some(v), whether e was absent, present or previously removed.
C4_AddThenGet ==
    last.op = "add" =>
        /\ last.ret # Panic
        /\ get(id_to_pos, comps, last.e) = Some(last.v)

\* C5 (compaction): remove_component of a live entity at dense index i that is
\* not the last index leaves the live entity that was mapped to the last index
\* mapped to i, with comps[i] equal to that entity's value.
C5_Compaction ==
    (/\ last.op = "remove"
     /\ last.e \in DOMAIN last.pre_live
     /\ last.e \in DOMAIN last.pre_pos
     /\ last.pre_pos[last.e] < Len(last.pre_comps) - 1) =>
        \A x \in DOMAIN last.pre_live \ {last.e} :
            (x \in DOMAIN last.pre_pos /\ last.pre_pos[x] = Len(last.pre_comps) - 1) =>
                /\ last.ret = Bool(TRUE)
                /\ x \in DOMAIN id_to_pos
                /\ id_to_pos[x] = last.pre_pos[last.e]
                /\ get(id_to_pos, comps, x) = Some(last.pre_live[x])

\* C6 (iteration): iter() yields exactly one pair per live entity: the yielded
\* entities are the entities added and not removed since, each paired with the
\* value most recently added for it; a removed entity is never yielded.
C6_IterIsLive ==
    ~panicked =>
        /\ ~iter_panics(id_to_pos, comps)
        /\ iter_count(id_to_pos) = Cardinality(DOMAIN live)
        /\ iter_items(id_to_pos, comps) = {<<e, live[e]>> : e \in DOMAIN live}

\* C7 (replace): add_component(e, v2) when e already holds v1 returns Some(v1),
\* leaves get(e) equal to v2, and leaves len() and every other entity's mapped
\* index and value unchanged.
C7_Replace ==
    (last.op = "add" /\ last.e \in DOMAIN last.pre_live) =>
        /\ last.ret = Some(last.pre_live[last.e])
        /\ get(id_to_pos, comps, last.e) = Some(last.v)
        /\ len(id_to_pos) = len(last.pre_pos)
        /\ \A x \in DOMAIN last.pre_live \ {last.e} :
              /\ x \in DOMAIN id_to_pos
              /\ x \in DOMAIN last.pre_pos
              /\ id_to_pos[x] = last.pre_pos[x]
              /\ get(id_to_pos, comps, x) = get(last.pre_pos, last.pre_comps, x)

\* C8 (remove of a missing entity): remove_component(e) for an entity that
\* holds no component (never added, or added and since removed) returns false
\* and changes neither id_to_pos nor comps.
C8_RemoveMissing ==
    (last.op = "remove" /\ last.e \notin DOMAIN last.pre_live) =>
        /\ last.ret = Bool(FALSE)
        /\ id_to_pos = last.pre_pos
        /\ comps = last.pre_comps

(***************************************************************************)
(* Claims about the CompData column, checked under SpecCompData.           *)
(***************************************************************************)

\* C9 (growth): for every initial capacity c and every N with 0 < c < N,
\* pushing N values into a column created with_capacity(c) yields a column of
\* length N whose view reads back exactly the pushed values in push order,
\* whichever way each growth step was served.
C9_GrowthCorrect ==
    (/\ cd.elem_size > 0
     /\ cd_hist.only_push
     /\ cd_last.op = "push" /\ cd_last.ret # Panic
     /\ 0 < cd_hist.init_cap
     /\ cd_hist.init_cap < Len(cd_hist.contents)) =>
        /\ cd.len = Len(cd_hist.contents)
        /\ view(cd, heap) = cd_hist.contents

\* C10 (len <= cap): for a column of a non-zero-size element type, len <= cap
\* holds after every operation, for every initial capacity.
C10_LenLeCap ==
    cd.elem_size > 0 => cd.len <= cd.cap

\* C11 (swap_remove): swap_remove(i) with i < len decrements len by one; if i
\* was not the last live slot, slot i afterwards holds the value that was in
\* the last slot and every other remaining slot is unchanged; if i was the
\* last slot, every remaining slot is unchanged.
C11_SwapRemove ==
    [][(cd_last'.op = "swap_remove" /\ cd_last'.ret = None /\ cd' # cd) =>
          /\ cd_last'.i < cd.len
          /\ cd'.len = cd.len - 1
          /\ \A k \in 0..(cd'.len - 1) :
                view(cd', heap')[k + 1] =
                    IF k = cd_last'.i THEN view(cd, heap)[cd.len]
                                      ELSE view(cd, heap)[k + 1]]_vars

\* A swap_remove of a slot that is not the last one, on a column of a
\* non-zero-size type, that moved a value different from the one removed.
C11_Witness ==
    /\ cd_last.op = "swap_remove" /\ cd_last.ret = None
    /\ cd.elem_size > 0
    /\ cd_status = "ok"
    /\ cd_last.i < cd.len
    /\ cd.len >= 2
    /\ view(cd, heap)[cd_last.i + 1] = Val(2)
    /\ view(cd, heap)[cd.len] = Val(1)

\* C12 (take): take() returns an entity sequence and a value sequence of the
\* same length, the number of live entities; position k of the entity sequence
\* is the entity whose component is at position k of the value sequence (never
\* Entity::RESERVED); afterwards the Comptainer is empty.
C12_Take ==
    last.op = "take" =>
        /\ last.ret # Panic
        /\ Len(last.ret.entities) = Len(last.ret.values)
        /\ Len(last.ret.entities) = Cardinality(DOMAIN last.pre_live)
        /\ \A k \in 1..Len(last.ret.entities) :
              /\ last.ret.entities[k] # RESERVED
              /\ last.ret.entities[k] \in DOMAIN last.pre_live
              /\ k \in 1..Len(last.ret.values)
              /\ last.ret.values[k] = last.pre_live[last.ret.entities[k]]
        /\ len(id_to_pos) = 0
        /\ comps = <<>>
        /\ \A e \in Entities : ~has_component(id_to_pos, e)

(***************************************************************************)
(* Claims about Entity::new, checked under SpecEntity.                     *)
(***************************************************************************)
ReturnedIds == UNION {{th[t].ids[k] : k \in 1..Len(th[t].ids)} : t \in Threads}

\* C13 (unique ids): for any interleaving of threads calling Entity::new,
\* every returned identifier is non-zero, no two calls return the same
\* identifier, and within one thread later calls return strictly larger ones.
C13_UniqueIds ==
    /\ 0 \notin ReturnedIds
    /\ \A t \in Threads : \A j, k \in 1..Len(th[t].ids) :
          j < k => th[t].ids[j] < th[t].ids[k]
    /\ \A t, u \in Threads : \A j \in 1..Len(th[t].ids), k \in 1..Len(th[u].ids) :
          (t # u \/ j # k) => th[t].ids[j] # th[u].ids[k]

\* Two threads were each returned two ids, and their calls interleaved.
C13_Witness ==
    \E t, u \in Threads :
        /\ t # u
        /\ Len(th[t].ids) >= 2 /\ Len(th[u].ids) >= 2
        /\ th[t].ids[1] < th[u].ids[1]
        /\ th[u].ids[1] < th[t].ids[2]
        /\ th[t].ids[2] < th[u].ids[2]

(***************************************************************************)
(* C14: every element of a column is finalized exactly once, and only by   *)
(* the call that takes it out: push finalizes nothing (the value becomes a *)
(* live element), swap_remove(i) finalizes slot i and nothing else,        *)
(* replace finalizes nothing and returns the value that was stored, and    *)
(* dropping the column finalizes slots 0..len-1 in index order and then    *)
(* releases the buffer, without undefined behaviour, whatever the element  *)
(* type and whether or not a buffer was ever allocated.                    *)
(***************************************************************************)
C14_FinalizedOnce ==
    /\ (cd_last.op = "push" /\ cd_last.ret = None) =>
            cd_last.fin = <<>> /\ ~cd_last.val_dropped
    /\ (cd_last.op = "swap_remove" /\ cd_last.ret = None) =>
            cd_last.fin = <<cd_last.i>> /\ ~cd_last.val_dropped
    /\ (cd_last.op = "replace" /\ cd_last.ret # Panic) =>
            cd_last.fin = <<>> /\ ~cd_last.val_dropped
    /\ cd_last.op = "drop" =>
            /\ cd_last.fin = [k \in 1..cd.len |-> k - 1]
            /\ cd_status = "dropped"
            /\ \A p \in 1..Len(heap) : heap[p].freed

(***************************************************************************)
(* C15: a column of a zero-size element type never has a buffer (data is   *)
(* None and nothing was ever allocated, whatever capacity was asked for,   *)
(* so grow was never entered) and its capacity stays usize::MAX; a push    *)
(* that returns adds exactly 1 to len, a swap_remove that returns takes    *)
(* exactly 1 from it, and replace leaves it as it is.                      *)
(***************************************************************************)
C15_ZeroSize ==
    /\ [](cd.elem_size = 0 => (cd.data = NoPtr /\ heap = <<>> /\ cd.cap = USIZE_MAX))
    /\ [][(cd.elem_size = 0 /\ cd_last'.ret # Panic) =>
             /\ cd_last'.op = "push" => cd'.len = cd.len + 1
             /\ cd_last'.op = "swap_remove" => cd'.len = cd.len - 1
             /\ cd_last'.op = "replace" => cd'.len = cd.len
             /\ view(cd', heap') = [k \in 1..cd'.len |-> UnitCell]]_vars

C15_Witness ==
    /\ cd.elem_size = 0
    /\ cd_hist.init_cap > 0
    /\ cd_last.op = "swap_remove"
    /\ cd_last.ret = None
    /\ cd.len = 2
    /\ cd_status = "ok"

(***************************************************************************)
(* C16: serializing a Comptainer reached by add_component and              *)
(* remove_component never fails, and deserializing what was written gives  *)
(* a Comptainer with the same mapping: exactly the entities that were live *)
(* when it was serialized, each with the value it had.                     *)
(***************************************************************************)
C16_RoundTrip ==
    /\ wire.phase # "panicked"
    /\ wire.phase # "failed"
    /\ wire.phase = "done" =>
          /\ DOMAIN id_to_pos = DOMAIN wire.saved
          /\ \A e \in DOMAIN wire.saved :
                get(id_to_pos, comps, e) = Some(wire.saved[e])

(***************************************************************************)
(* C17: when visit_map has read a whole input, duplicate keys included,    *)
(* the Comptainer holds exactly the distinct keys of the input, each with  *)
(* the value of its last occurrence, the dense sequence has one element    *)
(* per key, every index is within it and no two keys share an index.       *)
(***************************************************************************)
InputKeys == {wire.input[k].key : k \in 1..Len(wire.input)}

LastOccurrence(e) ==
    CHOOSE k \in 1..Len(wire.input) :
        /\ wire.input[k].key = e
        /\ \A j \in (k + 1)..Len(wire.input) : wire.input[j].key # e

C17_LoadDuplicates ==
    wire.phase = "done" =>
        /\ ~panicked
        /\ DOMAIN id_to_pos = InputKeys
        /\ len(id_to_pos) = Cardinality(InputKeys)
        /\ Len(comps) = Cardinality(InputKeys)
        /\ \A e \in InputKeys :
              get(id_to_pos, comps, e) = Some(wire.input[LastOccurrence(e)].val)
        /\ \A e \in DOMAIN id_to_pos : id_to_pos[e] < Len(comps)
        /\ \A e1, e2 \in DOMAIN id_to_pos : e1 # e2 => id_to_pos[e1] # id_to_pos[e2]

C17_Witness ==
    /\ wire.phase = "done"
    /\ Len(wire.input) = 3
    /\ wire.input[1].key = wire.input[3].key
    /\ wire.input[1].val # wire.input[3].val
    /\ wire.input[2].key # wire.input[1].key
    /\ Len(comps) = 2

(***************************************************************************)
(* C18: whatever the integer type it is handed, the Entity visitor returns *)
(* the Entity of that id when the integer is strictly positive and fits in *)
(* a u64, and an error (no Entity) when it is zero, negative or above      *)
(* u64::MAX.                                                               *)
(***************************************************************************)
C18_EntityDeserialize ==
    tok.phase = "visited" =>
        tok.res = IF 0 < tok.v /\ tok.v <= U64_MAX THEN Ok(tok.v) ELSE Err

C18_Witness ==
    /\ tok.phase = "visited"
    /\ tok.ty = "i128"
    /\ tok.v > U64_MAX
    /\ tok.res = Err

(***************************************************************************)
(* C19: a call of push, replace, as_typed_slice or as_typed_slice_mut with *)
(* a type other than the column's element type panics, and leaves the      *)
(* struct (data, len, cap) and every cell of the heap as they were.        *)
(***************************************************************************)
C19_TypeMismatch ==
    [][(/\ cd_last'.op \in {"push", "replace", "as_typed_slice", "as_typed_slice_mut"}
        /\ cd_last'.T # cd.elem_type) =>
          /\ cd_last'.ret = Panic
          /\ cd_status' = "panicked"
          /\ cd' = cd
          /\ heap' = heap
          /\ cd_last'.fin = <<>>]_vars

C19_Witness ==
    /\ cd_status = "panicked"
    /\ cd_last.op = "as_typed_slice_mut"
    /\ cd_last.T # cd.elem_type
    /\ cd_last.ret = Panic
    /\ cd.len >= 2

(***************************************************************************)
(* C20: replace(i, v) and swap_remove(i) with i >= len, on an empty column *)
(* too, panic: no element is finalized, and the struct (data, len, cap)    *)
(* and every cell of the heap stay as they were.                           *)
(***************************************************************************)
C20_OutOfBounds ==
    [][(cd_last'.op \in {"replace", "swap_remove"} /\ cd_last'.i >= cd.len) =>
          /\ cd_last'.ret = Panic
          /\ cd_status' = "panicked"
          /\ cd' = cd
          /\ heap' = heap
          /\ cd_last'.fin = <<>>]_vars

C20_Witness ==
    /\ cd_status = "panicked"
    /\ cd_last.op = "swap_remove"
    /\ cd_last.ret = Panic
    /\ cd_last.i = cd.len
    /\ cd.len >= 1
    /\ cd.elem_size > 0

(***************************************************************************)
(* C21: on each kind's lock at most one thread holds the write guard, and  *)
(* while one does no other thread holds any guard of that lock; a thread   *)
(* that holds nothing on a kind can take its read guard whenever no writer *)
(* holds that kind, and its write guard whenever nobody holds that kind,   *)
(* whatever is held on the other kinds.                                    *)
(***************************************************************************)
C21_ReadersWriter ==
    \A k \in Kinds :
        /\ Cardinality(writers(held, k)) <= 1
        /\ writers(held, k) # {} => readers(held, k) = {}
        /\ \A t \in Threads :
              held[t][k] = "none" =>
                /\ writers(held, k) = {} => ENABLED rw_read(t, k)
                /\ (writers(held, k) = {} /\ readers(held, k) = {}) =>
                       ENABLED rw_write(t, k)

C21_Witness ==
    \E k1, k2 \in Kinds : \E t, u \in Threads :
        /\ k1 # k2 /\ t # u
        /\ held[t][k1] = "read" /\ held[u][k1] = "read"
        /\ held[t][k2] = "write"

(***************************************************************************)
(* C22: as long as the column lives, data never names a block that was     *)
(* released: when grow had to move the elements to a fresh block, the      *)
(* column's buffer is the fresh block from then on, so no later call       *)
(* reads, writes or releases the released one.                             *)
(***************************************************************************)
C22_Relocation ==
    (cd_last.op # "drop" /\ cd.data # NoPtr) => ~heap[cd.data].freed

(***************************************************************************)
(* C23: remove_component(e), and add_component(e, v) on an entity that     *)
(* already holds a component, complete and leave get(x) as it was for      *)
(* every other live entity x; when e was in the last dense slot, the       *)
(* removal also leaves every other live entity's index as it was.          *)
(***************************************************************************)
C23_Frame ==
    (\/ last.op = "remove"
     \/ last.op = "add" /\ last.e \in DOMAIN last.pre_live) =>
        /\ last.ret # Panic
        /\ \A x \in DOMAIN last.pre_live \ {last.e} :
              get(id_to_pos, comps, x) = get(last.pre_pos, last.pre_comps, x)
        /\ (/\ last.op = "remove"
            /\ last.e \in DOMAIN last.pre_pos
            /\ last.pre_pos[last.e] = Len(last.pre_comps) - 1) =>
               \A x \in DOMAIN last.pre_live \ {last.e} :
                   x \in DOMAIN id_to_pos /\ id_to_pos[x] = last.pre_pos[x]

(***************************************************************************)
(* C24: in one pass of iter_mut(), whatever the order of the map, every    *)
(* index dereferenced lies inside the dense array and none is              *)
(* dereferenced twice.                                                     *)
(***************************************************************************)
C24_IterMutNoAlias ==
    ~panicked =>
        \A ys \in iter_mut_indices(id_to_pos) :
            /\ \A k \in 1..Len(ys) : ys[k] < Len(comps)
            /\ \A j, k \in 1..Len(ys) : j # k => ys[j] # ys[k]

(***************************************************************************)
(* C25: on a column of a non-zero-size type, a push that returns and found *)
(* no buffer leaves cap = 8; one that found a buffer with len = cap leaves *)
(* cap = old cap + floor(old cap / 2); any other push leaves cap as it     *)
(* was, and no step ever lowers cap.                                       *)
(***************************************************************************)
C25_GrowthPolicy ==
    [][cd.elem_size > 0 =>
         /\ cd'.cap >= cd.cap
         /\ (cd_last'.op = "push" /\ cd_last'.ret = None) =>
               cd'.cap = IF cd.data = NoPtr THEN 8
                         ELSE IF cd.len = cd.cap THEN cd.cap + (cd.cap \div 2)
                         ELSE cd.cap]_vars

C25_Witness ==
    /\ cd_last.op = "push"
    /\ cd_last.ret = None
    /\ cd_hist.only_push
    /\ cd_hist.init_cap = 2
    /\ cd.cap = 3
    /\ cd.len = 3
    /\ cd_status = "ok"

(***************************************************************************)
(* C26: get_one() returns None exactly when no entity is live; otherwise   *)
(* it returns, without panicking, a pair (e, v) where e is live and v is   *)
(* what get(e) returns.                                                    *)
(***************************************************************************)
C26_GetOne ==
    ~panicked =>
        \A r \in get_one(id_to_pos, comps) :
            /\ r = None <=> DOMAIN live = {}
            /\ r # None =>
                  /\ r.tag = "Some"
                  /\ r.val[1] \in DOMAIN live
                  /\ get(id_to_pos, comps, r.val[1]) = Some(r.val[2])

(***************************************************************************)
(* C27: while an iterator from iter() or iter_mut() is alive, before the   *)
(* first next() and after each one, size_hint() gives as lower and as      *)
(* upper bound the number of items the iterator has still to yield.        *)
(***************************************************************************)
C27_ExactSize ==
    it.on => size_hint(comps) = <<Len(it.rest), Some(Len(it.rest))>>

(***************************************************************************)
(* C28, as stated: a thread of the program that asks for a lock gets it:   *)
(* whichever thread is at a read() or write(), on a component lock or on   *)
(* the input lock, under either priority policy of RwLock, later passes it.*)
(***************************************************************************)
C28_NoDeadlock ==
    \A t \in Systems : \A i \in 1..Len(Prog(t)) :
        (pc[t] = i /\ Prog(t)[i].op = "acq") ~> (pc[t] # i)

\* RwLock can grant the thread the lock it asks for.
grantable(t) ==
    IF Instr(t).mode = "read"
    THEN /\ can_read(held, Instr(t).lock)
         /\ policy = "writers_first" => waiting_writers(Instr(t).lock) = {}
    ELSE can_write(held, Instr(t).lock)

\* The thread is at a read() or write() that RwLock cannot grant now.
blocked(t) == pc[t] > 0 /\ Instr(t).op = "acq" /\ ~grantable(t)

\* The threads a blocked thread waits for: those holding a guard that
\* excludes its own and, for a read under the writer-preferring policy, those
\* waiting to write.
waits_on(t) ==
    {u \in Systems :
        \/ held[u][Instr(t).lock] = "write"
        \/ Instr(t).mode = "write" /\ held[u][Instr(t).lock] = "read"
        \/ /\ Instr(t).mode = "read"
           /\ policy = "writers_first"
           /\ u \in waiting_writers(Instr(t).lock)}

(***************************************************************************)
(* C28, amended: the threads never deadlock on the component locks and the *)
(* input lock.  No cycle of waits forms, under either priority policy of   *)
(* RwLock: there is never a set of blocked threads each of which waits for *)
(* one of the set.  And a thread at a read() or write() passes it or comes *)
(* to a state in which RwLock can grant it the lock.                       *)
(***************************************************************************)
C28_NoWaitCycle ==
    /\ [](\A S \in SUBSET Systems :
              (S # {} /\ \A t \in S : blocked(t)) =>
                  \E t \in S : waits_on(t) \cap S = {})
    /\ \A t \in Systems : \A i \in 1..Len(Prog(t)) :
          (pc[t] = i /\ Prog(t)[i].op = "acq") ~> (pc[t] # i \/ grantable(t))

C28_Witness ==
    /\ held["game"]["transforms"] = "write"
    /\ held["game"]["physics_bodies"] = "write"
    /\ pc["render"] = 6
    /\ blocked("render")
    /\ held["main"]["input"] = "write"
    /\ policy = "writers_first"

(***************************************************************************)
(* C29: once a Stop has been sent to the Game system, Game::run returns    *)
(* and the join of SystemData::drop completes; the Input messages Game::run*)
(* has offered to the handlers are the first ones sent, in send order, all *)
(* of them sent before the Stop; and when run has returned, every Input    *)
(* sent before the Stop has been offered.                                  *)
(***************************************************************************)
StopAt == IF StopSent THEN CHOOSE i \in 1..Len(sent) : sent[i] = "Stop" ELSE Len(sent) + 1

C29_DispatchOrder ==
    /\ Len(dispatched) < StopAt
    /\ \A j \in 1..Len(dispatched) : dispatched[j] = j
    /\ (StopSent /\ run = "returned") => Len(dispatched) = StopAt - 1
    /\ joined => run = "returned"

C29_StopReturns == []C29_DispatchOrder /\ (StopSent ~> joined)

C29_Witness ==
    /\ joined
    /\ sent = <<"Input", "Input", "Stop">>
    /\ dispatched = <<1, 2>>
    /\ send_ret = "Ok"

(***************************************************************************)
(* C30: a handler takes an action only if the action's kind is one of the  *)
(* kinds it was made for, whichever the kind; a handler that does not take *)
(* it is left as it was; and an action is taken by at most one handler.    *)
(***************************************************************************)
C30_HandledKinds ==
    handled.on =>
        /\ \A i \in 1..Len(handled.rets) :
              IF handled.rets[i]
              THEN /\ handled.action \in handled.before[i].kinds
                   /\ action_handlers[i].action_queue
                        = Append(handled.before[i].action_queue, handled.action)
              ELSE action_handlers[i] = handled.before[i]
        /\ \A i \in 1..Len(action_handlers) :
              i > Len(handled.rets) => action_handlers[i] = handled.before[i]
        /\ Cardinality({i \in 1..Len(handled.rets) : handled.rets[i]}) <= 1

====
